---- MODULE Spec2Model ----
(***************************************************************************)
(* Model of the join-rewriting pass of arroyo-planner                      *)
(* (crates/arroyo-planner/src/plan/join.rs): JoinRewriter::f_up and the    *)
(* helpers it calls, applied to one plan node whose inputs are leaves.     *)
(***************************************************************************)
EXTENDS Integers, Sequences, FiniteSets, TLC

VARIABLES node, ttl, pc, is_instant, left_input, right_input,
          rewritten_join, final_logical_plan, result, second, row, merged

vars == <<node, ttl, pc, is_instant, left_input, right_input,
          rewritten_join, final_logical_plan, result, second, row, merged>>

(***************************************************************************)
(* Bounds of the model.                                                    *)
(***************************************************************************)
MaxWidth == 2
MaxOn == 2
MaxTimestamps == 2
MaxTime == 1

(***************************************************************************)
(* Option<T>: None is the empty sequence, Some(x) the one-element one.     *)
(***************************************************************************)
None == <<>>
Some(x) == <<x>>
IsSome(o) == Len(o) = 1

(***************************************************************************)
(* Schemas: ordered sequences of qualified fields.                         *)
(***************************************************************************)
Field(q, n) == [qualifier |-> q, name |-> n]

TIMESTAMP_FIELD == "_timestamp"
UPDATING_META_FIELD == "_updating_meta"

\* format!("_key_{}", index), as a table over the indices the bounds allow
KeyNames == <<"_key_0", "_key_1", "_key_2", "_key_3", "_key_4", "_key_5">>
KeyName(index) == KeyNames[index + 1]

\* qualifier of the i-th `_timestamp` column of an input relation
TimestampQualifiers ==
  [a |-> <<"a", "a2", "a3", "a4">>, b |-> <<"b", "b2", "b3", "b4">>]

\* the schema of a leaf input: k, its timestamps, v, and the updating-meta
\* field when the input is a change stream
SourceSchema(rel, nts, updating) ==
  <<Field(rel, "k")>>
    \o [i \in 1..nts |-> Field(TimestampQualifiers[rel][i], TIMESTAMP_FIELD)]
    \o <<Field(rel, "v")>>
    \o (IF updating THEN <<Field(rel, UPDATING_META_FIELD)>> ELSE <<>>)

has_column_with_unqualified_name(schema, name) ==
  \E i \in 1..Len(schema) : schema[i].name = name

(***************************************************************************)
(* Window types (arroyo_datastream::WindowType), compared structurally.    *)
(***************************************************************************)
WindowTypes ==
  [kind : {"Tumbling", "Session"}, width : 1..MaxWidth]

(***************************************************************************)
(* Expressions.                                                            *)
(***************************************************************************)
Column(q, n) == [kind |-> "Column", relation |-> q, name |-> n]
Alias(e, q, n) == [kind |-> "Alias", expr |-> e, relation |-> q, name |-> n]
Literal(v) == [kind |-> "Literal", value |-> v]
BinaryExpr(l, o, r) == [kind |-> "BinaryExpr", left |-> l, op |-> o, right |-> r]
Case(e, wt, el) ==
  [kind |-> "Case", expr |-> e, when_then_expr |-> wt, else_expr |-> el]
coalesce(args) == [kind |-> "ScalarFunction", fun |-> "coalesce", args |-> args]

\* Expr::alias_qualified
alias_qualified(e, q, n) == Alias(e, q, n)

\* the field an expression yields in a projection's derived schema
ExprToField(e) == Field(e.relation, e.name)

(***************************************************************************)
(* Plan nodes.                                                             *)
(***************************************************************************)
NoPlan == [kind |-> "NoPlan"]

TableScan(rel, w, nts, updating) ==
  [kind |-> "TableScan", table |-> rel, window |-> w,
   schema |-> SourceSchema(rel, nts, updating)]

JoinTypes ==
  {"Inner", "Left", "Right", "Full",
   "LeftSemi", "RightSemi", "LeftAnti", "RightAnti"}

JoinConstraints == {"On", "Using"}

\* datafusion build_join_schema: the fields the join type lets through
build_join_schema(left_schema, right_schema, join_type) ==
  CASE join_type \in {"Inner", "Left", "Right", "Full"} ->
         left_schema \o right_schema
    [] join_type \in {"LeftSemi", "LeftAnti"} -> left_schema
    [] join_type \in {"RightSemi", "RightAnti"} -> right_schema

\* Projection::try_new: the schema is derived from the expressions
ProjectionTryNew(exprs, input) ==
  [kind |-> "Projection", expr |-> exprs, input |-> input,
   schema |-> [i \in 1..Len(exprs) |-> ExprToField(exprs[i])]]

\* Projection::try_new_with_schema
ProjectionTryNewWithSchema(exprs, input, schema) ==
  [kind |-> "Projection", expr |-> exprs, input |-> input, schema |-> schema]

\* the fields of a schema whose 0-based position is not a key index
TrimKeys(schema, keys) ==
  LET F[i \in 0..Len(schema)] ==
        IF i = 0 THEN <<>>
        ELSE IF (i - 1) \in keys THEN F[i - 1]
             ELSE Append(F[i - 1], schema[i])
  IN F[Len(schema)]

\* KeyCalculationExtension::new_named_and_trimmed: wraps the projection,
\* records the key indices and the side name; the key columns are trimmed
\* from the schema the extension shows to the nodes above it
KeyCalculationExtension(input, keys, name) ==
  [kind |-> "Extension", node |-> "KeyCalculation", name |-> name,
   keys |-> keys, trimmed |-> TRUE, input |-> input,
   schema |-> TrimKeys(input.schema, keys)]

\* JoinExtension { rewritten_join, is_instant, ttl }
JoinExtension(plan, instant, t) ==
  [kind |-> "Extension", node |-> "Join", rewritten_join |-> plan,
   is_instant |-> instant, ttl |-> t]

\* LogicalPlan::schema
RECURSIVE SchemaOf(_)
SchemaOf(p) ==
  CASE p.kind = "Extension" /\ p.node = "Join" -> SchemaOf(p.rewritten_join)
    [] OTHER -> p.schema

\* WindowDetectingVisitor::get_window: the window of a subplan, seen through
\* projections and extensions
RECURSIVE get_window(_)
get_window(p) ==
  CASE p.kind = "TableScan" -> p.window
    [] p.kind = "Projection" -> get_window(p.input)
    [] p.kind = "Join" -> get_window(p.left)
    [] p.kind = "Extension" /\ p.node = "KeyCalculation" -> get_window(p.input)
    [] p.kind = "Extension" /\ p.node = "Join" -> get_window(p.rewritten_join)

(***************************************************************************)
(* Result<T>: Ok(v), or Err(DataFusionError::<variant>(msg)).              *)
(***************************************************************************)
Ok(v) == [ok |-> TRUE, val |-> v]
Err(variant, msg) == [ok |-> FALSE, variant |-> variant, msg |-> msg]

\* Transformed::no / Transformed::yes
TransformedNo(n) == [transformed |-> FALSE, data |-> n]
TransformedYes(n) == [transformed |-> TRUE, data |-> n]

\* check_join_windowing without the exclusion of session windows
check_join_windowing_with_sessions(join) ==
  LET left_window == get_window(join.left)
      right_window == get_window(join.right)
  IN CASE ~IsSome(left_window) /\ ~IsSome(right_window) ->
            IF join.join_type = "Inner"
            THEN Ok(FALSE)
            ELSE Err("NotImplemented",
                     "can't handle non-inner joins without windows")
       [] ~IsSome(left_window) /\ IsSome(right_window) ->
            Err("NotImplemented",
                "can't handle mixed windowing between left (non-windowed) and right (windowed).")
       [] IsSome(left_window) /\ ~IsSome(right_window) ->
            Err("NotImplemented",
                "can't handle mixed windowing between left (windowed) and right (non-windowed).")
       [] IsSome(left_window) /\ IsSome(right_window) ->
            IF left_window[1] # right_window[1]
            THEN Err("NotImplemented",
                     "can't handle mixed windowing between left and right")
            ELSE Ok(TRUE)

(***************************************************************************)
(* JoinRewriter::check_join_windowing                                      *)
(***************************************************************************)
check_join_windowing(join) ==
  LET left_window == get_window(join.left)
      right_window == get_window(join.right)
  IN CASE ~IsSome(left_window) /\ ~IsSome(right_window) ->
            IF join.join_type = "Inner"
            THEN Ok(FALSE)
            ELSE Err("NotImplemented",
                     "can't handle non-inner joins without windows")
       [] ~IsSome(left_window) /\ IsSome(right_window) ->
            Err("NotImplemented",
                "can't handle mixed windowing between left (non-windowed) and right (windowed).")
       [] IsSome(left_window) /\ ~IsSome(right_window) ->
            Err("NotImplemented",
                "can't handle mixed windowing between left (windowed) and right (non-windowed).")
       [] IsSome(left_window) /\ IsSome(right_window) ->
            IF left_window[1] # right_window[1]
            THEN Err("NotImplemented",
                     "can't handle mixed windowing between left and right")
            ELSE IF left_window[1].kind = "Session"
            THEN Err("NotImplemented", "can't handle session windows in joins")
            ELSE Ok(TRUE)

(***************************************************************************)
(* JoinRewriter::check_updating                                            *)
(***************************************************************************)
check_updating(left, right) ==
  IF has_column_with_unqualified_name(SchemaOf(left), UPDATING_META_FIELD)
  THEN Err("Plan", "can't handle updating left side of join")
  ELSE IF has_column_with_unqualified_name(SchemaOf(right), UPDATING_META_FIELD)
  THEN Err("Plan", "can't handle updating right side of join")
  ELSE Ok(<<>>)

(***************************************************************************)
(* JoinRewriter::create_join_key_plan                                      *)
(***************************************************************************)
\* the projection list with the input columns ahead of the key expressions
JoinKeyExpressions_columns_first(input, join_expressions) ==
  [i \in 1..Len(SchemaOf(input)) |->
     Column(SchemaOf(input)[i].qualifier, SchemaOf(input)[i].name)]
    \o [i \in 1..Len(join_expressions) |->
          alias_qualified(join_expressions[i], "_arroyo", KeyName(i - 1))]

\* the projection list: the aliased key expressions, then every input column
JoinKeyExpressions(input, join_expressions) ==
  [i \in 1..Len(join_expressions) |->
     alias_qualified(join_expressions[i], "_arroyo", KeyName(i - 1))]
    \o [i \in 1..Len(SchemaOf(input)) |->
          Column(SchemaOf(input)[i].qualifier, SchemaOf(input)[i].name)]

create_join_key_plan(input, join_expressions, name) ==
  LET key_count == Len(join_expressions)
      projection == ProjectionTryNew(JoinKeyExpressions(input, join_expressions),
                                     input)
  IN KeyCalculationExtension(projection, 0..(key_count - 1), name)

(***************************************************************************)
(* JoinRewriter::post_join_timestamp_projection                            *)
(***************************************************************************)
\* the fields whose name is `name` (keep) or is not (~keep), in order
FilterByName(schema, name, keep) ==
  LET F[i \in 0..Len(schema)] ==
        IF i = 0 THEN <<>>
        ELSE IF (schema[i].name = name) = keep
             THEN Append(F[i - 1], schema[i])
             ELSE F[i - 1]
  IN F[Len(schema)]

\* .iter().filter(|field| field.name() == "_timestamp").cloned().collect()
TimestampFields(schema) == FilterByName(schema, TIMESTAMP_FIELD, TRUE)

\* schema_with_timestamp.retain(|field| field.name() != "_timestamp")
RetainNonTimestamp(schema) == FilterByName(schema, TIMESTAMP_FIELD, FALSE)

\* the comparison alone, without the coalesce fallback
MaxTimestampExpr_without_else(left_column, right_column) ==
  Case(Some(BinaryExpr(left_column, "GtEq", right_column)),
       << <<Literal(Some(TRUE)), left_column>>,
          <<Literal(Some(FALSE)), right_column>> >>,
       None)

\* CASE (left >= right) WHEN true THEN left WHEN false THEN right
\* ELSE coalesce(left, right)
MaxTimestampExpr(left_column, right_column) ==
  Case(Some(BinaryExpr(left_column, "GtEq", right_column)),
       << <<Literal(Some(TRUE)), left_column>>,
          <<Literal(Some(FALSE)), right_column>> >>,
       Some(coalesce(<<left_column, right_column>>)))

\* the trailing field taken from the second timestamp field
post_join_timestamp_projection_second_field(input) ==
  LET schema == SchemaOf(input)
      timestamp_fields == TimestampFields(schema)
      retained == RetainNonTimestamp(schema)
      projection_expr ==
        [i \in 1..Len(retained) |->
           Column(retained[i].qualifier, retained[i].name)]
      output_schema == Append(retained, timestamp_fields[2])
      left_field == timestamp_fields[1]
      left_column == Column(left_field.qualifier, left_field.name)
      right_field == timestamp_fields[2]
      right_column == Column(right_field.qualifier, right_field.name)
      max_timestamp == MaxTimestampExpr(left_column, right_column)
  IN IF Len(timestamp_fields) # 2
     THEN Err("NotImplemented", "join must have two timestamp fields")
     ELSE Ok(ProjectionTryNewWithSchema(
               Append(projection_expr,
                      Alias(max_timestamp, left_field.qualifier, left_field.name)),
               input, output_schema))

post_join_timestamp_projection(input) ==
  LET schema == SchemaOf(input)
      timestamp_fields == TimestampFields(schema)
      retained == RetainNonTimestamp(schema)
      projection_expr ==
        [i \in 1..Len(retained) |->
           Column(retained[i].qualifier, retained[i].name)]
      output_schema == Append(retained, timestamp_fields[1])
      left_field == timestamp_fields[1]
      left_column == Column(left_field.qualifier, left_field.name)
      right_field == timestamp_fields[2]
      right_column == Column(right_field.qualifier, right_field.name)
      max_timestamp == MaxTimestampExpr(left_column, right_column)
  IN IF Len(timestamp_fields) # 2
     THEN Err("NotImplemented", "join must have two timestamp fields")
     ELSE Ok(ProjectionTryNewWithSchema(
               Append(projection_expr,
                      Alias(max_timestamp, left_field.qualifier, left_field.name)),
               input, output_schema))

(***************************************************************************)
(* JoinRewriter::f_up, piece by piece.                                     *)
(***************************************************************************)
\* the pattern without null_equals_null: false
Destructure_constraint_only(join) ==
  IF join.join_constraint = "On"
  THEN Ok(<<>>)
  ELSE Err("NotImplemented", "can't handle join constraint other than ON")

\* the let-else pattern: join_constraint: JoinConstraint::On and
\* null_equals_null: false, anything else is rejected
Destructure(join) ==
  IF join.join_constraint = "On" /\ join.null_equals_null = FALSE
  THEN Ok(<<>>)
  ELSE Err("NotImplemented", "can't handle join constraint other than ON")

\* the equijoin check left out
CheckEquijoin_skipped(on, instant) == Ok(<<>>)

\* if on.is_empty() && !is_instant
CheckEquijoin(on, instant) ==
  IF Len(on) = 0 /\ ~instant
  THEN Err("NotImplemented", "Updating joins must include an equijoin condition")
  ELSE Ok(<<>>)

\* on.clone().into_iter().unzip()
left_expressions(on) == [i \in 1..Len(on) |-> on[i][1]]
right_expressions(on) == [i \in 1..Len(on) |-> on[i][2]]

\* the join rebuilt over the original inputs instead of the keyed ones
RebuildJoin_unkeyed(join, left_in, right_in) ==
  [kind |-> "Join", left |-> join.left, right |-> join.right, on |-> join.on,
   filter |-> join.filter, join_type |-> join.join_type,
   join_constraint |-> "On", null_equals_null |-> FALSE,
   schema |-> build_join_schema(SchemaOf(left_in), SchemaOf(right_in),
                                join.join_type)]

\* the join rebuilt with the schema of an inner join, whatever its type
RebuildJoin_inner_schema(join, left_in, right_in) ==
  [kind |-> "Join", left |-> left_in, right |-> right_in, on |-> join.on,
   filter |-> join.filter, join_type |-> join.join_type,
   join_constraint |-> "On", null_equals_null |-> FALSE,
   schema |-> build_join_schema(SchemaOf(left_in), SchemaOf(right_in),
                                "Inner")]

\* LogicalPlan::Join(Join { schema: build_join_schema(..), left, right, .. })
RebuildJoin(join, left_in, right_in) ==
  [kind |-> "Join", left |-> left_in, right |-> right_in, on |-> join.on,
   filter |-> join.filter, join_type |-> join.join_type,
   join_constraint |-> "On", null_equals_null |-> FALSE,
   schema |-> build_join_schema(SchemaOf(left_in), SchemaOf(right_in),
                                join.join_type)]

\* the ttl set whether or not the join is instant
JoinTtl_always(instant, t) == Some(t)

\* ttl: (!is_instant).then_some(self.schema_provider.planning_options.ttl)
JoinTtl(instant, t) == IF ~instant THEN Some(t) ELSE None

\* the non-join arm signalling a transformation
PassThrough_transformed(n) == Ok(TransformedYes(n))

\* the non-join arm: Ok(Transformed::no(node))
PassThrough(n) == Ok(TransformedNo(n))

\* Ok(Transformed::yes(LogicalPlan::Extension(join_extension)))
WrapJoin(final, instant, t) ==
  Ok(TransformedYes(JoinExtension(final, instant, JoinTtl(instant, t))))

f_up(n, t) ==
  IF n.kind # "Join" THEN PassThrough(n)
  ELSE
    LET windowing == check_join_windowing(n)
        instant == windowing.val
        left_in == create_join_key_plan(n.left, left_expressions(n.on), "left")
        right_in == create_join_key_plan(n.right, right_expressions(n.on), "right")
        final == post_join_timestamp_projection(RebuildJoin(n, left_in, right_in))
    IN IF ~windowing.ok THEN windowing
       ELSE IF ~Destructure(n).ok THEN Destructure(n)
       ELSE IF ~check_updating(n.left, n.right).ok
            THEN check_updating(n.left, n.right)
       ELSE IF ~CheckEquijoin(n.on, instant).ok THEN CheckEquijoin(n.on, instant)
       ELSE IF ~final.ok THEN final
       ELSE WrapJoin(final.val, instant, t)

(***************************************************************************)
(* TreeNode::rewrite: post-order traversal, children first, then f_up on   *)
(* the node rebuilt over its rewritten children.                           *)
(***************************************************************************)
\* apply f_up to a node whose children were rewritten, keeping their flag
UpThen(n, t, child_transformed) ==
  LET r == f_up(n, t)
  IN IF ~r.ok THEN r
     ELSE Ok([transformed |-> child_transformed \/ r.val.transformed,
              data |-> r.val.data])

RECURSIVE Rewrite(_, _)
Rewrite(n, t) ==
  CASE n.kind = "TableScan" -> f_up(n, t)
    [] n.kind = "Projection" \/ (n.kind = "Extension" /\ n.node = "KeyCalculation") ->
         LET c == Rewrite(n.input, t)
         IN IF ~c.ok THEN c
            ELSE UpThen([n EXCEPT !.input = c.val.data], t, c.val.transformed)
    [] n.kind = "Extension" /\ n.node = "Join" ->
         LET c == Rewrite(n.rewritten_join, t)
         IN IF ~c.ok THEN c
            ELSE UpThen([n EXCEPT !.rewritten_join = c.val.data], t,
                        c.val.transformed)
    [] n.kind = "Join" ->
         LET l == Rewrite(n.left, t)
             r == Rewrite(n.right, t)
         IN IF ~l.ok THEN l
            ELSE IF ~r.ok THEN r
            ELSE UpThen([n EXCEPT !.left = l.val.data, !.right = r.val.data], t,
                        l.val.transformed \/ r.val.transformed)

(***************************************************************************)
(* Evaluation of an expression on one row of a plan's input.  A value is   *)
(* an Option: None is SQL NULL.                                            *)
(***************************************************************************)
NULL == <<>>

\* position of the field a column reference resolves to
IndexOfColumn(schema, c) ==
  CHOOSE i \in 1..Len(schema) :
    schema[i].qualifier = c.relation /\ schema[i].name = c.name

\* first WHEN whose value equals the operand (NULL equals nothing), or 0
FirstMatch(base, whens) ==
  IF base = NULL \/ ~\E i \in 1..Len(whens) : whens[i] = base THEN 0
  ELSE CHOOSE i \in 1..Len(whens) :
         whens[i] = base /\ \A j \in 1..(i - 1) : whens[j] # base

\* first non-NULL argument, or NULL
FirstNonNull(vals) ==
  IF \A i \in 1..Len(vals) : vals[i] = NULL THEN NULL
  ELSE vals[CHOOSE i \in 1..Len(vals) :
              vals[i] # NULL /\ \A j \in 1..(i - 1) : vals[j] = NULL]

RECURSIVE Eval(_, _, _)
Eval(e, schema, values) ==
  CASE e.kind = "Column" -> values[IndexOfColumn(schema, e)]
    [] e.kind = "Literal" -> e.value
    [] e.kind = "Alias" -> Eval(e.expr, schema, values)
    [] e.kind = "BinaryExpr" ->
         LET l == Eval(e.left, schema, values)
             r == Eval(e.right, schema, values)
         IN IF l = NULL \/ r = NULL THEN NULL
            ELSE Some(l[1] >= r[1])
    [] e.kind = "ScalarFunction" ->
         FirstNonNull([i \in 1..Len(e.args) |-> Eval(e.args[i], schema, values)])
    [] e.kind = "Case" ->
         LET base == Eval(e.expr[1], schema, values)
             whens == [i \in 1..Len(e.when_then_expr) |->
                         Eval(e.when_then_expr[i][1], schema, values)]
             hit == FirstMatch(base, whens)
         IN IF hit # 0 THEN Eval(e.when_then_expr[hit][2], schema, values)
            ELSE IF IsSome(e.else_expr) THEN Eval(e.else_expr[1], schema, values)
            ELSE NULL

\* a row of the rebuilt join: the two timestamps, every other column 0
JoinedRow(schema, l, r) ==
  LET ts == {i \in 1..Len(schema) : schema[i].name = TIMESTAMP_FIELD}
      first == CHOOSE i \in ts : \A j \in ts : i <= j
  IN [i \in 1..Len(schema) |->
        IF i \notin ts THEN Some(0) ELSE IF i = first THEN l ELSE r]

(***************************************************************************)
(* The inputs.                                                             *)
(***************************************************************************)
Windows == {None} \cup {Some(w) : w \in WindowTypes}

Ttls == {3600, 86400}

OnPairs == {<<Column("a", "k"), Column("b", "k")>>,
            <<Column("a", "v"), Column("b", "v")>>}

OnLists == UNION {[1..n -> OnPairs] : n \in 0..MaxOn}

Sources(rel) ==
  {TableScan(rel, w, nts, u) :
     w \in Windows, nts \in 0..MaxTimestamps, u \in BOOLEAN}

JoinNode(l, r, on, f, jt, jc, nen) ==
  [kind |-> "Join", left |-> l, right |-> r, on |-> on, filter |-> f,
   join_type |-> jt, join_constraint |-> jc, null_equals_null |-> nen,
   schema |-> build_join_schema(l.schema, r.schema, jt)]

\* node is a join over two leaves
IsInputJoin(n) ==
  \E l \in Sources("a"), r \in Sources("b"), on \in OnLists,
     jt \in JoinTypes, jc \in JoinConstraints, nen \in BOOLEAN :
    n = JoinNode(l, r, on, None, jt, jc, nen)

TimeValues == {NULL} \cup {Some(v) : v \in 0..MaxTime}

(***************************************************************************)
(* The state machine: one call of f_up on `node`, step by step, then the   *)
(* evaluation of the merged timestamp and a second pass over the output.   *)
(***************************************************************************)
Init ==
  /\ \/ IsInputJoin(node)
     \/ node \in Sources("a")
  /\ ttl \in Ttls
  /\ pc = "start"
  /\ is_instant = FALSE
  /\ left_input = NoPlan
  /\ right_input = NoPlan
  /\ rewritten_join = NoPlan
  /\ final_logical_plan = NoPlan
  /\ result = None
  /\ second = None
  /\ row = None
  /\ merged = None

Fail(e) ==
  /\ pc' = "error"
  /\ result' = Some(e)
  /\ UNCHANGED <<node, ttl, is_instant, left_input, right_input,
                 rewritten_join, final_logical_plan, second, row, merged>>

Step(next) ==
  /\ pc' = next
  /\ UNCHANGED <<node, ttl, is_instant, left_input, right_input,
                 rewritten_join, final_logical_plan, result, second, row, merged>>

\* let LogicalPlan::Join(join) = node else { return Ok(Transformed::no(node)) }
NotAJoin ==
  /\ pc = "start"
  /\ node.kind # "Join"
  /\ pc' = "done"
  /\ result' = Some(PassThrough(node))
  /\ UNCHANGED <<node, ttl, is_instant, left_input, right_input,
                 rewritten_join, final_logical_plan, second, row, merged>>

\* let is_instant = Self::check_join_windowing(&join)?
CheckJoinWindowing ==
  /\ pc = "start"
  /\ node.kind = "Join"
  /\ LET w == check_join_windowing(node)
     IN IF w.ok
        THEN /\ is_instant' = w.val
             /\ pc' = "windowed"
             /\ UNCHANGED <<node, ttl, left_input, right_input, rewritten_join,
                            final_logical_plan, result, second, row, merged>>
        ELSE Fail(w)

DestructureJoin ==
  /\ pc = "windowed"
  /\ IF Destructure(node).ok THEN Step("destructured")
     ELSE Fail(Destructure(node))

CheckUpdating ==
  /\ pc = "destructured"
  /\ IF check_updating(node.left, node.right).ok THEN Step("append_only")
     ELSE Fail(check_updating(node.left, node.right))

CheckOn ==
  /\ pc = "append_only"
  /\ IF CheckEquijoin(node.on, is_instant).ok THEN Step("keyable")
     ELSE Fail(CheckEquijoin(node.on, is_instant))

CreateLeftKeyPlan ==
  /\ pc = "keyable"
  /\ left_input' =
       create_join_key_plan(node.left, left_expressions(node.on), "left")
  /\ pc' = "left_keyed"
  /\ UNCHANGED <<node, ttl, is_instant, right_input, rewritten_join,
                 final_logical_plan, result, second, row, merged>>

CreateRightKeyPlan ==
  /\ pc = "left_keyed"
  /\ right_input' =
       create_join_key_plan(node.right, right_expressions(node.on), "right")
  /\ pc' = "right_keyed"
  /\ UNCHANGED <<node, ttl, is_instant, left_input, rewritten_join,
                 final_logical_plan, result, second, row, merged>>

BuildRewrittenJoin ==
  /\ pc = "right_keyed"
  /\ rewritten_join' = RebuildJoin(node, left_input, right_input)
  /\ pc' = "joined"
  /\ UNCHANGED <<node, ttl, is_instant, left_input, right_input,
                 final_logical_plan, result, second, row, merged>>

PostJoinTimestampProjection ==
  /\ pc = "joined"
  /\ LET p == post_join_timestamp_projection(rewritten_join)
     IN IF p.ok
        THEN /\ final_logical_plan' = p.val
             /\ pc' = "projected"
             /\ UNCHANGED <<node, ttl, is_instant, left_input, right_input,
                            rewritten_join, result, second, row, merged>>
        ELSE Fail(p)

EmitJoinExtension ==
  /\ pc = "projected"
  /\ result' = Some(WrapJoin(final_logical_plan, is_instant, ttl))
  /\ pc' = "done"
  /\ UNCHANGED <<node, ttl, is_instant, left_input, right_input,
                 rewritten_join, final_logical_plan, second, row, merged>>

\* the merged-timestamp expression of the emitted projection, on one row
EvalMergedTimestamp ==
  /\ pc = "done"
  /\ final_logical_plan # NoPlan
  /\ \E l \in TimeValues, r \in TimeValues :
       /\ row' = Some(<<l, r>>)
       /\ merged' =
            Some(Eval(final_logical_plan.expr[Len(final_logical_plan.expr)],
                      SchemaOf(final_logical_plan.input),
                      JoinedRow(SchemaOf(final_logical_plan.input), l, r)))
  /\ UNCHANGED <<node, ttl, pc, is_instant, left_input, right_input,
                 rewritten_join, final_logical_plan, result, second>>

\* the pass run once more, on the plan it produced
SecondPass ==
  /\ pc = "done"
  /\ second' = Some(Rewrite(result[1].val.data, ttl))
  /\ pc' = "repeated"
  /\ UNCHANGED <<node, ttl, is_instant, left_input, right_input,
                 rewritten_join, final_logical_plan, result, row, merged>>

Next ==
  \/ NotAJoin
  \/ CheckJoinWindowing
  \/ DestructureJoin
  \/ CheckUpdating
  \/ CheckOn
  \/ CreateLeftKeyPlan
  \/ CreateRightKeyPlan
  \/ BuildRewrittenJoin
  \/ PostJoinTimestampProjection
  \/ EmitJoinExtension
  \/ EvalMergedTimestamp
  \/ SecondPass

Spec == Init /\ [][Next]_vars

\* the steps compose to f_up
StepsAreFUp ==
  pc \in {"done", "error", "repeated"} => result = Some(f_up(node, ttl))

(***************************************************************************)
(* Vocabulary of the properties.                                           *)
(***************************************************************************)
IsJoin == node.kind = "Join"
Finished == pc \in {"done", "repeated"}
Emitted == Finished /\ result[1].val.transformed
Failed == pc = "error"
ErrorMsg == result[1].msg
\* the streaming-join extension the pass emitted
Emission == result[1].val.data

LeftWindow == node.left.window
RightWindow == node.right.window

WindowingErrors ==
  {"can't handle non-inner joins without windows",
   "can't handle mixed windowing between left (non-windowed) and right (windowed).",
   "can't handle mixed windowing between left (windowed) and right (non-windowed).",
   "can't handle mixed windowing between left and right",
   "can't handle session windows in joins"}

\* the verdict of the decision table of the window classification
TableVerdict(lw, rw, jt) ==
  IF lw = None /\ rw = None
  THEN (IF jt = "Inner" THEN "updating" ELSE "reject: non-inner")
  ELSE IF lw = None \/ rw = None THEN "reject: mixed"
  ELSE IF lw # rw THEN "reject: mismatched"
  ELSE IF lw[1].kind = "Session" THEN "reject: session"
  ELSE "instant"

\* the verdict the classification step reached in the current state
StepVerdict ==
  IF Failed /\ ErrorMsg \in WindowingErrors
  THEN CASE ErrorMsg = "can't handle non-inner joins without windows" ->
              "reject: non-inner"
         [] ErrorMsg = "can't handle mixed windowing between left and right" ->
              "reject: mismatched"
         [] ErrorMsg = "can't handle session windows in joins" ->
              "reject: session"
         [] OTHER -> "reject: mixed"
  ELSE IF is_instant THEN "instant" ELSE "updating"

WindowsAccepted ==
  TableVerdict(LeftWindow, RightWindow, node.join_type) \in {"instant", "updating"}

CountNamed(schema, name) ==
  Cardinality({i \in 1..Len(schema) : schema[i].name = name})

\* LogicalPlan::inputs: the immediate children of a plan node
Children(p) ==
  CASE p.kind = "Projection" -> <<p.input>>
    [] p.kind = "Join" -> <<p.left, p.right>>
    [] p.kind = "Extension" /\ p.node = "KeyCalculation" -> <<p.input>>
    [] p.kind = "Extension" /\ p.node = "Join" -> <<p.rewritten_join>>
    [] OTHER -> <<>>

IsKeyCalculation(p) == p.kind = "Extension" /\ p.node = "KeyCalculation"
IsStreamingJoin(p) == p.kind = "Extension" /\ p.node = "Join"

(***************************************************************************)
(* C1: once the window classification has run on a join, its verdict is    *)
(* the one of the decision table on (left window, right window, join type):*)
(* updating, instant, or the rejection of that row.                        *)
(***************************************************************************)
C1_WindowDecisionTable ==
  (IsJoin /\ pc # "start") =>
    StepVerdict = TableVerdict(LeftWindow, RightWindow, node.join_type)

C1_Witness ==
  /\ IsJoin
  /\ pc = "windowed"
  /\ is_instant
  /\ LeftWindow = Some([kind |-> "Tumbling", width |-> 1])
  /\ node.join_type = "Left"

(***************************************************************************)
(* C2: the merged-timestamp expression evaluates to the greater timestamp  *)
(* when both are non-NULL, to the non-NULL one when exactly one is, and to *)
(* NULL when both are NULL.                                                *)
(***************************************************************************)
C2_MergedTimestampIsNullTolerantMax ==
  row # None =>
    LET l == row[1][1]
        r == row[1][2]
    IN merged = Some(IF l # NULL /\ r # NULL
                     THEN (IF l[1] > r[1] THEN l ELSE r)
                     ELSE IF l # NULL THEN l
                     ELSE IF r # NULL THEN r
                     ELSE NULL)

C2_Witness ==
  /\ row = Some(<<NULL, Some(1)>>)
  /\ merged = Some(Some(1))

(***************************************************************************)
(* C3 as stated: the inner plan of the emitted streaming-join extension    *)
(* has two immediate children, both key-calculation extensions.            *)
(***************************************************************************)
C3_InnerPlanHasTwoKeyedChildren ==
  (Finished /\ IsJoin) =>
    /\ IsStreamingJoin(Emission)
    /\ Len(Children(Emission.rewritten_join)) = 2
    /\ \A i \in 1..Len(Children(Emission.rewritten_join)) :
         IsKeyCalculation(Children(Emission.rewritten_join)[i])

(***************************************************************************)
(* C3 amended: the output root is a streaming-join extension whose inner   *)
(* plan is the timestamp-merge projection; the single input of that        *)
(* projection is the rebuilt join, and the two immediate children of the   *)
(* rebuilt join are the key-calculation extensions "left" and "right".     *)
(***************************************************************************)
C3_RebuiltJoinHasTwoKeyedChildren ==
  (Finished /\ IsJoin) =>
    /\ IsStreamingJoin(Emission)
    /\ Emission.rewritten_join.kind = "Projection"
    /\ Len(Children(Emission.rewritten_join)) = 1
    /\ LET join == Children(Emission.rewritten_join)[1]
       IN /\ join.kind = "Join"
          /\ Len(Children(join)) = 2
          /\ IsKeyCalculation(Children(join)[1])
          /\ IsKeyCalculation(Children(join)[2])
          /\ Children(join)[1].name = "left"
          /\ Children(join)[2].name = "right"

C3_Witness ==
  /\ pc = "done"
  /\ IsJoin
  /\ Emission.rewritten_join.input.left.name = "left"

(***************************************************************************)
(* C4 as stated: the schema of each keyed input (the key-calculation       *)
(* extension the rebuilt join takes as its child) is k key columns         *)
(* _arroyo._key_0 .. _arroyo._key_{k-1} followed by every column of the    *)
(* original input schema; the key indices are {0..k-1}, with the same k on *)
(* both sides.                                                             *)
(***************************************************************************)
SchemaHasKeyPrefix(schema, input, k) ==
  /\ Len(schema) = k + Len(input.schema)
  /\ \A i \in 1..k : schema[i] = Field("_arroyo", KeyName(i - 1))
  /\ \A i \in 1..Len(input.schema) : schema[k + i] = input.schema[i]

KeysRecorded ==
  pc \in {"right_keyed", "joined", "projected", "done", "repeated"} /\ IsJoin

C4_KeyedInputSchemaHasKeyPrefix ==
  KeysRecorded =>
    /\ SchemaHasKeyPrefix(SchemaOf(left_input), node.left, Len(node.on))
    /\ SchemaHasKeyPrefix(SchemaOf(right_input), node.right, Len(node.on))
    /\ left_input.keys = 0..(Len(node.on) - 1)
    /\ right_input.keys = 0..(Len(node.on) - 1)

(***************************************************************************)
(* C4 amended: the projection each keyed input wraps has the schema of k   *)
(* key columns _arroyo._key_0 .. _arroyo._key_{k-1}, the i-th computing    *)
(* the i-th `on` expression of its side, followed by every column of the   *)
(* original input under its qualifier and name; the key indices recorded   *)
(* are {0..k-1}, with the same k on both sides; the schema the keyed input *)
(* itself shows to the join above it has the key columns trimmed, so it is *)
(* the original input schema.                                              *)
(***************************************************************************)
KeyedAsSpecified(keyed, input, exprs) ==
  LET k == Len(exprs)
      projection == keyed.input
  IN /\ IsKeyCalculation(keyed)
     /\ keyed.keys = 0..(k - 1)
     /\ projection.kind = "Projection"
     /\ projection.input = input
     /\ Len(projection.expr) = Len(projection.schema)
     /\ SchemaHasKeyPrefix(projection.schema, input, k)
     /\ \A i \in 1..k :
          /\ projection.expr[i].kind = "Alias"
          /\ projection.expr[i].expr = exprs[i]
     /\ \A i \in 1..Len(input.schema) :
          projection.expr[k + i] =
            Column(input.schema[i].qualifier, input.schema[i].name)
     /\ SchemaOf(keyed) = input.schema

C4_KeyedProjections ==
  KeysRecorded =>
    /\ KeyedAsSpecified(left_input, node.left,
                        [i \in 1..Len(node.on) |-> node.on[i][1]])
    /\ KeyedAsSpecified(right_input, node.right,
                        [i \in 1..Len(node.on) |-> node.on[i][2]])
    /\ Cardinality(left_input.keys) = Len(node.on)
    /\ Cardinality(right_input.keys) = Len(node.on)

C4_Witness ==
  /\ pc = "right_keyed"
  /\ Len(node.on) = 2
  /\ node.on[1] # node.on[2]
  /\ left_input.input.schema[2] = Field("_arroyo", "_key_1")
  /\ SchemaOf(left_input) = node.left.schema

(***************************************************************************)
(* C5: the timestamp merge succeeds exactly when the joined schema has two *)
(* `_timestamp` fields; its output schema is then the non-timestamp fields *)
(* of the joined schema, in order, followed by one `_timestamp` field with *)
(* the qualifier of the first timestamp field of the joined schema.        *)
(***************************************************************************)
\* position in `schema` of its j-th field that is (is not) a timestamp
NthPosition(schema, timestamp, j) ==
  CHOOSE i \in 1..Len(schema) :
    /\ (schema[i].name = TIMESTAMP_FIELD) = timestamp
    /\ Cardinality({h \in 1..(i - 1) :
                      (schema[h].name = TIMESTAMP_FIELD) = timestamp}) = j - 1

MergeTried ==
  IsJoin /\ rewritten_join # NoPlan /\ pc # "joined"

C5_TimestampMerge ==
  MergeTried =>
    LET joined == rewritten_join.schema
        n == CountNamed(joined, TIMESTAMP_FIELD)
        out == final_logical_plan.schema
    IN /\ (pc # "error") <=> (n = 2)
       /\ pc = "error" =>
            /\ ErrorMsg = "join must have two timestamp fields"
            /\ final_logical_plan = NoPlan
       /\ pc # "error" =>
            /\ Len(out) = Len(joined) - 1
            /\ \A j \in 1..(Len(out) - 1) :
                 out[j] = joined[NthPosition(joined, FALSE, j)]
            /\ out[Len(out)] = joined[NthPosition(joined, TRUE, 1)]
            /\ CountNamed(out, TIMESTAMP_FIELD) = 1

C5_Witness ==
  /\ pc = "projected"
  /\ node.join_type = "Inner"
  /\ Len(rewritten_join.schema) = 6
  /\ final_logical_plan.schema =
       <<Field("a", "k"), Field("a", "v"), Field("b", "k"), Field("b", "v"),
         Field("a", TIMESTAMP_FIELD)>>

(***************************************************************************)
(* C6: an emitted streaming-join extension has ttl = None iff is_instant,  *)
(* and when it is not instant its ttl is the planning configuration's ttl. *)
(***************************************************************************)
C6_TtlIffNotInstant ==
  (Finished /\ IsJoin) =>
    /\ (Emission.ttl = None) <=> (Emission.is_instant = TRUE)
    /\ Emission.is_instant = FALSE => Emission.ttl = Some(ttl)

C6_Witness ==
  /\ pc = "done"
  /\ IsJoin
  /\ Emission.is_instant = FALSE
  /\ ttl = 86400
  /\ Emission.ttl = Some(86400)

(***************************************************************************)
(* C7 as stated: the second pass over the plan the pass produced returns   *)
(* it unchanged, with no node transformed and no error.                    *)
(***************************************************************************)
C7_SecondPassIsNoOp ==
  pc = "repeated" =>
    /\ second[1].ok
    /\ second[1].val.transformed = FALSE
    /\ second[1].val.data = Emission

(***************************************************************************)
(* C7 amended: f_up applied to the emitted streaming-join extension itself *)
(* returns it unchanged and signals no transformation, since it is not a   *)
(* join; the bottom-up traversal of the produced plan also visits the      *)
(* rebuilt join inside the extension, which f_up rewrites again, so the    *)
(* second pass of an accepted join reports a transformation and returns a  *)
(* different plan, and only a plan without a join comes back unchanged.    *)
(***************************************************************************)
C7_OnlyTheRootPassesThrough ==
  pc = "repeated" =>
    /\ f_up(Emission, ttl) = Ok(TransformedNo(Emission))
    /\ second[1].ok
    /\ IsJoin =>
         /\ second[1].val.transformed = TRUE
         /\ second[1].val.data # Emission
         /\ IsStreamingJoin(second[1].val.data)
         /\ IsStreamingJoin(second[1].val.data.rewritten_join.input)
    /\ ~IsJoin =>
         /\ second[1].val.transformed = FALSE
         /\ second[1].val.data = Emission

C7_Witness ==
  /\ pc = "repeated"
  /\ IsJoin
  /\ second[1].val.transformed = TRUE
  /\ IsStreamingJoin(second[1].val.data.rewritten_join.input)

(***************************************************************************)
(* C8: an emitted extension with is_instant = FALSE wraps an Inner join    *)
(* with a non-empty `on`; an unwindowed join that is non-Inner or has an   *)
(* empty `on` yields no output plan.                                       *)
(***************************************************************************)
C8_UpdatingJoinIsInnerEquijoin ==
  /\ (Finished /\ IsJoin /\ Emission.is_instant = FALSE) =>
       /\ Emission.rewritten_join.input.join_type = "Inner"
       /\ Len(Emission.rewritten_join.input.on) > 0
  /\ (IsJoin /\ LeftWindow = None /\ RightWindow = None
        /\ (node.join_type # "Inner" \/ node.on = <<>>)) =>
       /\ ~Finished
       /\ pc \in {"start", "windowed", "destructured", "append_only", "error"}

C8_Witness ==
  /\ pc = "done"
  /\ IsJoin
  /\ Emission.is_instant = FALSE
  /\ Len(Emission.rewritten_join.input.on) = 1

(***************************************************************************)
(* C9 as stated: a join that passes the window classification and has an   *)
(* input with the updating-meta field is rejected with the updating-input  *)
(* error naming that side (left before right), whatever its constraint and *)
(* null-equals-null are.                                                   *)
(***************************************************************************)
LeftUpdating == CountNamed(node.left.schema, UPDATING_META_FIELD) > 0
RightUpdating == CountNamed(node.right.schema, UPDATING_META_FIELD) > 0

C9_UpdatingCheckedBeforeStructure ==
  (IsJoin /\ Failed /\ WindowsAccepted /\ (LeftUpdating \/ RightUpdating)) =>
    ErrorMsg = (IF LeftUpdating THEN "can't handle updating left side of join"
                ELSE "can't handle updating right side of join")

(***************************************************************************)
(* C9 amended: the checks are applied in the order window classification,  *)
(* structural preconditions (constraint is ON, null-equals-null is false), *)
(* updating-meta check (left before right), empty-`on` check for updating  *)
(* joins; a rejected join gets the error of the earliest violated check in *)
(* this order, so a join with an updating input whose constraint is not ON *)
(* or whose null-equals-null is true gets the join-constraint error.       *)
(***************************************************************************)
EarliestViolation ==
  IF ~WindowsAccepted THEN "windowing"
  ELSE IF node.join_constraint # "On" \/ node.null_equals_null
       THEN "can't handle join constraint other than ON"
  ELSE IF LeftUpdating THEN "can't handle updating left side of join"
  ELSE IF RightUpdating THEN "can't handle updating right side of join"
  ELSE IF node.on = <<>> /\ LeftWindow = None
       THEN "Updating joins must include an equijoin condition"
  ELSE "none"

C9_StructureCheckedBeforeUpdating ==
  /\ (IsJoin /\ Failed) =>
       CASE EarliestViolation = "windowing" -> ErrorMsg \in WindowingErrors
         [] EarliestViolation = "none" ->
              ErrorMsg = "join must have two timestamp fields"
         [] OTHER -> ErrorMsg = EarliestViolation
  /\ (IsJoin /\ EarliestViolation # "none") =>
       pc \in {"start", "windowed", "destructured", "append_only", "error"}

C9_Witness ==
  /\ IsJoin
  /\ Failed
  /\ WindowsAccepted
  /\ LeftUpdating
  /\ node.join_constraint = "Using"
  /\ ErrorMsg = "can't handle join constraint other than ON"

(***************************************************************************)
(* C10: when each input has exactly one `_timestamp` column, a semi or     *)
(* anti join never yields a streaming-join extension; if it passes every   *)
(* other check, the rebuilt join's schema has one `_timestamp` field and   *)
(* the rewrite ends in "join must have two timestamp fields".              *)
(***************************************************************************)
SemiOrAnti ==
  node.join_type \in {"LeftSemi", "RightSemi", "LeftAnti", "RightAnti"}

OneTimestampEach ==
  /\ CountNamed(node.left.schema, TIMESTAMP_FIELD) = 1
  /\ CountNamed(node.right.schema, TIMESTAMP_FIELD) = 1

C10_SemiAntiNeverEmitted ==
  (IsJoin /\ SemiOrAnti /\ OneTimestampEach) =>
    /\ pc \notin {"projected", "done", "repeated"}
    /\ rewritten_join # NoPlan =>
         CountNamed(rewritten_join.schema, TIMESTAMP_FIELD) = 1
    /\ (EarliestViolation = "none" /\ pc = "error") =>
         ErrorMsg = "join must have two timestamp fields"
    /\ EarliestViolation = "none" => pc # "error" \/ rewritten_join # NoPlan

C10_Witness ==
  /\ IsJoin
  /\ node.join_type = "LeftAnti"
  /\ OneTimestampEach
  /\ LeftWindow = Some([kind |-> "Tumbling", width |-> 1])
  /\ RightWindow = LeftWindow
  /\ Failed
  /\ rewritten_join # NoPlan
  /\ ErrorMsg = "join must have two timestamp fields"

====
